---- MODULE Spec2Model ----
(***************************************************************************)
(* Model of the Gmail API E2E test tooling:                                *)
(*   scripts/newman_runner.js  - NewmanRunner and its CLI entry point      *)
(*   scripts/setup_oauth.js    - GmailOAuthHelper (token endpoint calls)   *)
(* The run engine behind newman.run(...) is a dependency whose code is not *)
(* part of the sources; its steps follow section 4.4 of the specification. *)
(***************************************************************************)
EXTENDS Integers, Sequences, FiniteSets, TLC

(***************************************************************************)
(* Bounds of the model.                                                    *)
(***************************************************************************)
\* how many token operations are called on one helper instance
MaxCalls == 2
\* how far the clock of the token model advances
MaxTime == 2

VARIABLES
    \* ---- newman_runner.js: the CLI process ----
    args,           \* process.argv.slice(2): <<command, environment, iterations>>
    callArgs,       \* the arguments of the runGmailTests call: [environment, options]
    pc,             \* position of main(): "start", "engine", "callback", "settled", "exited"
                    \* ("call" before a direct call of runGmailTests)
    runOptions,     \* the object handed to newman.run
    printed,        \* execution summaries written by the callback, in order
    resolved,       \* how many times the promise's resolve was called
    rejected,       \* how many times the promise's reject was called
    completedMsg,   \* how many times 'Test execution completed!' was logged
    exits,          \* process.exit codes, in order
    \* ---- the run engine (newman.run) ----
    state,          \* "Idle", "Running", "Completed", "Failed", "Aborted"
    outcomes,       \* recorded request outcomes: the requests executed, in order
    failedAssertions,   \* outcomes with a failed assertion
    transportErrors,    \* outcomes that are transport errors
    engineErr,      \* the err the engine hands to the callback, or "none"
    envVars,        \* the Environment: variable name -> value
    collections,    \* the collection files: path -> requests in order
    \* ---- setup_oauth.js: one GmailOAuthHelper instance ----
    now,            \* the clock
    fetches,        \* requests sent to the token endpoint, in order
    calls,          \* finished helper calls and what each returned or threw, in order
    \* ---- test_runner.sh: launcher processes sharing one working directory ----
    launchers,      \* process -> its command line, parsed locals, position and exit code
    reports,        \* the reports directory: whether it exists, and its files
    envFiles,       \* environment name -> state of environments/Gmail_API_<name>... file
    clock           \* wall-clock time in milliseconds

runnerVars == <<args, callArgs, pc, runOptions, printed, resolved, rejected, completedMsg, exits,
                state, outcomes, failedAssertions, transportErrors, engineErr,
                envVars, collections>>
oauthVars == <<now, fetches, calls>>
launcherVars == <<launchers, reports, envFiles, clock>>
vars == <<args, callArgs, pc, runOptions, printed, resolved, rejected, completedMsg, exits,
          state, outcomes, failedAssertions, transportErrors, engineErr,
          envVars, collections, now, fetches, calls,
          launchers, reports, envFiles, clock>>

(***************************************************************************)
(* Strings that the code inspects character by character are sequences of  *)
(* one-character strings; an absent argument is the empty sequence.        *)
(***************************************************************************)
Absent == <<>>

Digits == {"0", "1", "2", "3", "4", "5", "6", "7", "8", "9"}

DigitVal(c) ==
    CASE c = "0" -> 0 [] c = "1" -> 1 [] c = "2" -> 2 [] c = "3" -> 3 [] c = "4" -> 4
      [] c = "5" -> 5 [] c = "6" -> 6 [] c = "7" -> 7 [] c = "8" -> 8 [] c = "9" -> 9

\* String.prototype.toLowerCase on one character
LowerChar(c) ==
    CASE c = "S" -> "s" [] c = "M" -> "m" [] c = "O" -> "o" [] c = "K" -> "k"
      [] c = "E" -> "e" [] c = "F" -> "f" [] c = "U" -> "u" [] c = "L" -> "l"
      [] c = "P" -> "p" [] c = "R" -> "r" [] c = "N" -> "n" [] c = "A" -> "a"
      [] c = "C" -> "c"
      [] OTHER -> c

ToLowerCase(s) == [i \in 1..Len(s) |-> LowerChar(s[i])]

\* the longest prefix of s made of digits
RECURSIVE DigitPrefix(_)
DigitPrefix(s) ==
    IF s = <<>> \/ s[1] \notin Digits THEN <<>>
    ELSE <<s[1]>> \o DigitPrefix(Tail(s))

RECURSIVE DigitsValue(_, _)
DigitsValue(s, acc) ==
    IF s = <<>> THEN acc ELSE DigitsValue(Tail(s), 10 * acc + DigitVal(s[1]))

\* parseInt(s): optional sign, then the leading decimal digits; NaN when there
\* are none (also for undefined).  The result is [nan |-> BOOLEAN, val |-> Int].
ParseInt(s) ==
    LET neg == s # <<>> /\ s[1] = "-"
        body == IF s # <<>> /\ s[1] \in {"-", "+"} THEN Tail(s) ELSE s
        ds == DigitPrefix(body)
    IN IF ds = <<>> THEN [nan |-> TRUE, val |-> 0]
       ELSE [nan |-> FALSE, val |-> IF neg THEN 0 - DigitsValue(ds, 0) ELSE DigitsValue(ds, 0)]

(***************************************************************************)
(* Literals of newman_runner.js.                                           *)
(***************************************************************************)
SMOKE == <<"s", "m", "o", "k", "e">>
FULL == <<"f", "u", "l", "l">>
PERFORMANCE == <<"p", "e", "r", "f", "o", "r", "m", "a", "n", "c", "e">>

DefaultIterationCount == 1
DefaultDelayRequest == 1000
DefaultTimeout == 30000
SmokeIterations == 1
PerformanceDelay == 500
DefaultPerformanceIterations == 5

SmokeFolders == <<"Authentication", "Profile & User Info">>

\* x || d on a numeric option: d when x is undefined (key absent) or 0
\* (the options of this model hold no NaN and no non-numbers under these keys)
OrNum(options, key, d) ==
    IF key \in DOMAIN options /\ options[key] # 0 THEN options[key] ELSE d

\* x || false on a boolean option
OrFalse(options, key) ==
    IF key \in DOMAIN options THEN options[key] ELSE FALSE

EnvironmentPath(environment) ==
    <<"environments/Gmail_API_">> \o environment \o <<".postman_environment.json">>

\* new Date().toISOString(), in pieces: the separators are pieces of their own
Timestamps == {<<"2026-01-01T10", ":", "15", ":", "30", ".", "250Z">>}

\* .replace(/[:.]/g, '-')
ReplaceColonDot(s) == [i \in 1..Len(s) |-> IF s[i] \in {":", "."} THEN "-" ELSE s[i]]

\* the export paths of the three file reporters
ReportPaths(timestamp) ==
    LET stamp == ReplaceColonDot(timestamp)
    IN [html |-> [export |-> <<"reports/gmail-e2e-report-">> \o stamp \o <<".html">>],
        json |-> [export |-> <<"reports/gmail-e2e-report-">> \o stamp \o <<".json">>],
        junit |-> [export |-> <<"reports/gmail-e2e-junit-">> \o stamp \o <<".xml">>]]

\* variant: the default timeout lost a zero
BaseRunOptionsShortTimeout(environment, timestamp, options) ==
    [collection |-> "collections/Gmail_API_E2E_Tests.postman_collection.json",
     environment |-> EnvironmentPath(environment),
     data |-> "data/test_data.csv",
     reporters |-> <<"html", "json", "junit", "cli">>,
     reporter |-> ReportPaths(timestamp),
     iterationCount |-> OrNum(options, "iterations", DefaultIterationCount),
     delayRequest |-> OrNum(options, "delay", DefaultDelayRequest),
     timeout |-> OrNum(options, "timeout", DefaultTimeout \div 10),
     insecure |-> FALSE,
     bail |-> OrFalse(options, "bail"),
     color |-> "on"]

\* the object literal of runGmailTests before the spread of options
BaseRunOptions(environment, timestamp, options) ==
    [collection |-> "collections/Gmail_API_E2E_Tests.postman_collection.json",
     environment |-> EnvironmentPath(environment),
     data |-> "data/test_data.csv",
     reporters |-> <<"html", "json", "junit", "cli">>,
     reporter |-> ReportPaths(timestamp),
     iterationCount |-> OrNum(options, "iterations", DefaultIterationCount),
     delayRequest |-> OrNum(options, "delay", DefaultDelayRequest),
     timeout |-> OrNum(options, "timeout", DefaultTimeout),
     insecure |-> FALSE,
     bail |-> OrFalse(options, "bail"),
     color |-> "on"]

\* variant: bail is left at its default, whatever the caller asked for
RunGmailTestsOptionsBailOff(environment, timestamp, options) ==
    LET base == BaseRunOptions(environment, timestamp, options)
    IN [k \in (DOMAIN base) \cup (DOMAIN options) |->
            IF k = "bail" THEN FALSE
            ELSE IF k \in DOMAIN options THEN options[k] ELSE base[k]]

\* variant: the options are not spread into the object
RunGmailTestsOptionsNoSpread(environment, timestamp, options) ==
    BaseRunOptions(environment, timestamp, options)

\* { ...base, ...options }: every key of options is copied over the literal
RunGmailTestsOptions(environment, timestamp, options) ==
    LET base == BaseRunOptions(environment, timestamp, options)
    IN [k \in (DOMAIN base) \cup (DOMAIN options) |->
            IF k \in DOMAIN options THEN options[k] ELSE base[k]]

\* runGmailTests called with no second argument: options = {}
NoOptions == [k \in {} |-> 0]

\* variant: the smoke run does not ask for bail
smokeOptionsNoBail ==
    [folder |-> SmokeFolders, bail |-> FALSE, iterations |-> SmokeIterations]

smokeOptions == [folder |-> SmokeFolders, bail |-> TRUE, iterations |-> SmokeIterations]

\* variant: the iteration count of the caller is dropped
performanceOptionsFixed(iterations) ==
    [iterations |-> DefaultPerformanceIterations, delay |-> PerformanceDelay, bail |-> FALSE]

performanceOptions(iterations) ==
    [iterations |-> iterations, delay |-> PerformanceDelay, bail |-> FALSE]

\* variant: the iteration argument is not read
PerformanceIterationsIgnored(arg) == DefaultPerformanceIterations

\* parseInt(args[2]) || 5
PerformanceIterations(arg) ==
    LET p == ParseInt(arg)
    IN IF p.nan \/ p.val = 0 THEN DefaultPerformanceIterations ELSE p.val

\* args[0] || 'full' and args[1] || 'Development'
Command(a) == IF a[1] = Absent THEN FULL ELSE a[1]
Environment(a) == IF a[2] = Absent THEN <<"Development">> ELSE a[2]

\* variant: the switch compares the command as typed
OptionsOfCommandAsTyped(a) ==
    IF Command(a) = SMOKE THEN smokeOptions
    ELSE IF Command(a) = PERFORMANCE THEN performanceOptions(PerformanceIterations(a[3]))
    ELSE NoOptions

\* the switch of main(): the options object the selected method passes on
OptionsOfCommand(a) ==
    LET c == ToLowerCase(Command(a))
    IN IF c = SMOKE THEN smokeOptions
       ELSE IF c = PERFORMANCE THEN performanceOptions(PerformanceIterations(a[3]))
       ELSE NoOptions

(***************************************************************************)
(* The collection: folders in order, each with its requests in order       *)
(* (README, "Test Coverage").  A request is [folder, name].                *)
(***************************************************************************)
Collection ==
    << [folder |-> "Authentication", name |-> "Get OAuth Token"],
       [folder |-> "Authentication", name |-> "Refresh Token"],
       [folder |-> "Authentication", name |-> "Validate Authentication"],
       [folder |-> "Profile & User Info", name |-> "Get User Profile"],
       [folder |-> "Profile & User Info", name |-> "Validate Account"],
       [folder |-> "Labels Management", name |-> "List Labels"],
       [folder |-> "Message Operations", name |-> "List Messages"],
       [folder |-> "Cleanup", name |-> "Remove Test Data"] >>

Range(s) == {s[i] : i \in 1..Len(s)}

\* a second collection file a caller may name instead
OtherCollection == <<[name |-> "Ping", folder |-> "Other"]>>

\* the collection files on disk
CollectionFiles ==
    [path \in {"collections/Gmail_API_E2E_Tests.postman_collection.json",
               "collections/Other.postman_collection.json"} |->
        IF path = "collections/Gmail_API_E2E_Tests.postman_collection.json"
        THEN Collection ELSE OtherCollection]

\* the collection the engine loads from the path it is handed
Load(path) == collections[path]

\* the Environment as loaded: the client credentials, no token yet
EnvironmentFile ==
    [client_id |-> "client-id", client_secret |-> "client-secret",
     access_token |-> "undefined"]

\* the fields of the Environment the Credential Manager owns
TokenFields == {"access_token"}

\* step 1 of a request: the Credential Manager writes the token it obtained,
\* unless the request is itself an auth request
IssueToken(env, request) ==
    IF request.folder = "Authentication" THEN env
    ELSE [k \in DOMAIN env |-> IF k \in TokenFields THEN "issued" ELSE env[k]]

(***************************************************************************)
(* The run engine (specification 4.4), reading the keys of the object it   *)
(* is started with: folder, iterationCount, bail.                          *)
(***************************************************************************)
InFilter(ro, r) == "folder" \notin DOMAIN ro \/ r.folder \in Range(ro.folder)

\* the selected request set, in collection order
Selected(ro) == SelectSeq(Load(ro.collection), LAMBDA r : InFilter(ro, r))

\* the number of requests of a run that is not aborted
Total(ro) ==
    IF ro.iterationCount <= 0 THEN 0 ELSE ro.iterationCount * Len(Selected(ro))

\* the k-th request of the run: iterations repeat the selected set
Scheduled(ro, k) == Selected(ro)[((k - 1) % Len(Selected(ro))) + 1]

Verdicts == {"pass", "assertionFailure", "transportError"}

Terminal == {"Completed", "Failed", "Aborted"}

\* the RunSummary the engine hands to the callback
Summary ==
    [requestsTotal |-> Len(outcomes),
     requestsFailed |-> transportErrors,
     assertionsFailed |-> failedAssertions,
     failures |-> failedAssertions + transportErrors]

\* Idle -> Running on run(collection, environment, options)
EngineStart ==
    /\ pc = "engine" /\ state = "Idle"
    /\ state' = "Running"
    /\ UNCHANGED <<args, callArgs, pc, runOptions, printed, resolved, rejected, completedMsg, exits,
                   outcomes, failedAssertions, transportErrors, engineErr>>
    /\ UNCHANGED <<envVars, collections>>
    /\ UNCHANGED oauthVars
    /\ UNCHANGED launcherVars

\* ConfigError at load time: the run never reaches Running
EngineConfigError ==
    /\ pc = "engine" /\ state = "Idle"
    /\ engineErr' = "ConfigError"
    /\ pc' = "callback"
    /\ UNCHANGED <<args, callArgs, runOptions, printed, resolved, rejected, completedMsg, exits,
                   state, outcomes, failedAssertions, transportErrors>>
    /\ UNCHANGED <<envVars, collections>>
    /\ UNCHANGED oauthVars
    /\ UNCHANGED launcherVars

\* steps 1-4 for the next request: execute, evaluate, record, apply bail
EngineRequest ==
    /\ pc = "engine" /\ state = "Running"
    /\ Len(outcomes) < Total(runOptions)
    /\ \E v \in Verdicts :
        /\ outcomes' = Append(outcomes, Scheduled(runOptions, Len(outcomes) + 1))
        /\ failedAssertions' = failedAssertions + (IF v = "assertionFailure" THEN 1 ELSE 0)
        /\ transportErrors' = transportErrors + (IF v = "transportError" THEN 1 ELSE 0)
        /\ IF v # "pass" /\ runOptions.bail
           THEN state' = "Aborted" /\ pc' = "callback"
           ELSE UNCHANGED <<state, pc>>
    /\ UNCHANGED <<args, callArgs, runOptions, printed, resolved, rejected, completedMsg, exits,
                   engineErr>>
    /\ envVars' = IssueToken(envVars, Scheduled(runOptions, Len(outcomes) + 1))
    /\ UNCHANGED collections
    /\ UNCHANGED oauthVars
    /\ UNCHANGED launcherVars

\* step 1 fails: AuthError is fatal to the run, the engine reports it as err
EngineAuthError ==
    /\ pc = "engine" /\ state = "Running"
    /\ Len(outcomes) < Total(runOptions)
    /\ state' = "Aborted"
    /\ engineErr' = "AuthError"
    /\ pc' = "callback"
    /\ UNCHANGED <<args, callArgs, runOptions, printed, resolved, rejected, completedMsg, exits,
                   outcomes, failedAssertions, transportErrors>>
    /\ UNCHANGED <<envVars, collections>>
    /\ UNCHANGED oauthVars
    /\ UNCHANGED launcherVars

\* all iterations complete without an abort
EngineFinish ==
    /\ pc = "engine" /\ state = "Running"
    /\ Len(outcomes) = Total(runOptions)
    /\ state' = IF failedAssertions = 0 THEN "Completed" ELSE "Failed"
    /\ pc' = "callback"
    /\ UNCHANGED <<args, callArgs, runOptions, printed, resolved, rejected, completedMsg, exits,
                   outcomes, failedAssertions, transportErrors, engineErr>>
    /\ UNCHANGED <<envVars, collections>>
    /\ UNCHANGED oauthVars
    /\ UNCHANGED launcherVars

(***************************************************************************)
(* newman_runner.js: main() and the callback of runGmailTests.             *)
(***************************************************************************)
\* main() up to the call of newman.run: the switch, the selected method,
\* runGmailTests building runOptions
MainStart ==
    /\ pc = "start"
    /\ callArgs' = [environment |-> Environment(args), options |-> OptionsOfCommand(args)]
    /\ \E timestamp \in Timestamps :
        runOptions' =
            RunGmailTestsOptions(Environment(args), timestamp, OptionsOfCommand(args))
    /\ pc' = "engine"
    /\ UNCHANGED <<args, printed, resolved, rejected, completedMsg, exits,
                   state, outcomes, failedAssertions, transportErrors, engineErr>>
    /\ UNCHANGED <<envVars, collections>>
    /\ UNCHANGED oauthVars
    /\ UNCHANGED launcherVars

\* what the callback logs of a summary
SummaryLines(summary) ==
    [totalRequests |-> summary.requestsTotal,
     passedRequests |-> summary.requestsTotal - summary.requestsFailed,
     failedRequests |-> summary.requestsFailed,
     failedAssertions |-> summary.assertionsFailed,
     failuresListed |-> summary.failures,
     allPassed |-> summary.failures = 0]

\* variant: the return after reject(err) is missing
CallbackFallsThrough ==
    /\ pc = "callback"
    /\ rejected' = rejected + (IF engineErr # "none" THEN 1 ELSE 0)
    /\ printed' = Append(printed, SummaryLines(Summary))
    /\ resolved' = resolved + 1
    /\ pc' = "settled"
    /\ UNCHANGED <<args, callArgs, runOptions, completedMsg, exits,
                   state, outcomes, failedAssertions, transportErrors, engineErr>>
    /\ UNCHANGED <<envVars, collections>>
    /\ UNCHANGED oauthVars
    /\ UNCHANGED launcherVars

\* variant: the callback resets the token fields after the run
CallbackClearsTokens ==
    /\ pc = "callback"
    /\ IF engineErr # "none"
       THEN /\ rejected' = rejected + 1
            /\ UNCHANGED <<printed, resolved>>
       ELSE /\ printed' = Append(printed, SummaryLines(Summary))
            /\ resolved' = resolved + 1
            /\ UNCHANGED rejected
    /\ pc' = "settled"
    /\ envVars' = [k \in DOMAIN envVars |-> IF k \in TokenFields THEN "" ELSE envVars[k]]
    /\ UNCHANGED <<args, callArgs, runOptions, completedMsg, exits,
                   state, outcomes, failedAssertions, transportErrors, engineErr>>
    /\ UNCHANGED collections
    /\ UNCHANGED oauthVars
    /\ UNCHANGED launcherVars

\* (err, summary) => { if (err) { reject(err); return; } ...log...; resolve(summary); }
Callback ==
    /\ pc = "callback"
    /\ IF engineErr # "none"
       THEN /\ rejected' = rejected + 1
            /\ UNCHANGED <<printed, resolved>>
       ELSE /\ printed' = Append(printed, SummaryLines(Summary))
            /\ resolved' = resolved + 1
            /\ UNCHANGED rejected
    /\ pc' = "settled"
    /\ UNCHANGED <<args, callArgs, runOptions, completedMsg, exits,
                   state, outcomes, failedAssertions, transportErrors, engineErr>>
    /\ UNCHANGED <<envVars, collections>>
    /\ UNCHANGED oauthVars
    /\ UNCHANGED launcherVars

\* variant: the catch block exits like the success path
MainSettleExitZero ==
    /\ pc = "settled"
    /\ exits' = Append(exits, 0)
    /\ completedMsg' = completedMsg + (IF rejected > 0 THEN 0 ELSE 1)
    /\ pc' = "exited"
    /\ UNCHANGED <<args, callArgs, runOptions, printed, resolved, rejected,
                   state, outcomes, failedAssertions, transportErrors, engineErr>>
    /\ UNCHANGED <<envVars, collections>>
    /\ UNCHANGED oauthVars
    /\ UNCHANGED launcherVars

\* main() after the await: the promise settled with its first resolve/reject
MainSettle ==
    /\ pc = "settled"
    /\ IF rejected > 0
       THEN /\ exits' = Append(exits, 1)
            /\ UNCHANGED completedMsg
       ELSE /\ completedMsg' = completedMsg + 1
            /\ exits' = Append(exits, 0)
    /\ pc' = "exited"
    /\ UNCHANGED <<args, callArgs, runOptions, printed, resolved, rejected,
                   state, outcomes, failedAssertions, transportErrors, engineErr>>
    /\ UNCHANGED <<envVars, collections>>
    /\ UNCHANGED oauthVars
    /\ UNCHANGED launcherVars

(***************************************************************************)
(* NewmanRunner used as a module (module.exports): a caller calls          *)
(* runGmailTests(environment, options) directly.                           *)
(***************************************************************************)
\* options objects of callers: the documented keys (README, "Newman Runner
\* Options"), one at a time and together, and keys that are not documented
ApiOptions ==
    {NoOptions,
     [iterations |-> 0], [iterations |-> 2],
     [delay |-> 0], [delay |-> 250],
     [timeout |-> 0], [timeout |-> 5000],
     [bail |-> FALSE], [bail |-> TRUE],
     [folder |-> <<"Authentication">>],
     [iterations |-> 1, delay |-> 1000, timeout |-> 30000, bail |-> FALSE,
      folder |-> <<"Authentication">>],
     [iterations |-> 2, delay |-> 0, bail |-> TRUE],
     [verbose |-> TRUE],
     [collection |-> "collections/Other.postman_collection.json"],
     [reporters |-> <<"cli">>],
     [iterationCount |-> 2, iterations |-> 1],
     [delayRequest |-> 0, delay |-> 250]}

\* the default value of the parameter: environment = 'Development'
EnvironmentParam(environment) ==
    IF environment = Absent THEN <<"Development">> ELSE environment

\* runGmailTests(environment, options) up to the call of newman.run
ApiCall ==
    /\ pc = "call"
    /\ \E timestamp \in Timestamps :
        runOptions' = RunGmailTestsOptions(EnvironmentParam(callArgs.environment),
                                           timestamp, callArgs.options)
    /\ pc' = "engine"
    /\ UNCHANGED <<args, callArgs, printed, resolved, rejected, completedMsg, exits,
                   state, outcomes, failedAssertions, transportErrors, engineErr>>
    /\ UNCHANGED <<envVars, collections>>
    /\ UNCHANGED oauthVars
    /\ UNCHANGED launcherVars

(***************************************************************************)
(* setup_oauth.js: GmailOAuthHelper.  The token endpoint is the            *)
(* environment: every fetch gets one of Responses.                         *)
(***************************************************************************)
ClientId == "YOUR_CLIENT_ID"
ClientSecret == "YOUR_CLIENT_SECRET"
tokenUrl == "https://oauth2.googleapis.com/token"

RefreshTokens == {"refresh-1", "refresh-2"}
AuthorizationCodes == {"code-1"}

\* lifetimes (expires_in) the endpoint declares, in clock units
Lifetimes == {1, 3}

\* a response body: parses says whether response.json() succeeds, fields are
\* the keys of the parsed object
TokenBody(lifetime) ==
    [parses |-> TRUE, fields |-> {"access_token", "expires_in", "token_type"},
     expires_in |-> lifetime]
ErrorBody == [parses |-> TRUE, fields |-> {"error", "error_description"}, expires_in |-> 0]
NotJsonBody == [parses |-> FALSE, fields |-> {}, expires_in |-> 0]

\* reached: fetch resolved with a response (otherwise it rejected);
\* ok: response.ok
Responses ==
    {[reached |-> FALSE, ok |-> FALSE, body |-> NotJsonBody],
     [reached |-> TRUE, ok |-> FALSE, body |-> ErrorBody],
     [reached |-> TRUE, ok |-> TRUE, body |-> ErrorBody],
     [reached |-> TRUE, ok |-> TRUE, body |-> NotJsonBody]}
    \cup {[reached |-> TRUE, ok |-> TRUE, body |-> TokenBody(l)] : l \in Lifetimes}

\* the POST body of a request to the token endpoint
TokenRequest(grant, credential) ==
    [url |-> tokenUrl, client_id |-> ClientId, client_secret |-> ClientSecret,
     grant_type |-> grant, credential |-> credential]

\* what one call of an async helper method does: the requests it sends, and
\* whether it throws or returns the parsed body
Thrown(requests) == [requests |-> requests, threw |-> TRUE, value |-> NotJsonBody]
Returned(requests, body) == [requests |-> requests, threw |-> FALSE, value |-> body]

\* fetch, then if (!response.ok) throw, then return await response.json()
FetchThenJson(request, response) ==
    IF ~response.reached THEN Thrown(<<request>>)
    ELSE IF ~response.ok THEN Thrown(<<request>>)
    ELSE IF ~response.body.parses THEN Thrown(<<request>>)
    ELSE Returned(<<request>>, response.body)

\* the safety margin of the token cache described by the specification (4.1),
\* in clock units
SafetyMargin == 1

\* call i returned a token for refreshToken that is still fresh at time t
FreshTokenFrom(i, refreshToken, t) ==
    /\ calls[i].op = "refresh" /\ calls[i].arg = refreshToken
    /\ ~calls[i].threw /\ "access_token" \in calls[i].value.fields
    /\ calls[i].at + calls[i].value.expires_in > t + SafetyMargin

\* variant: a fresh token of an earlier call is returned without a fetch
refreshAccessTokenCached(refreshToken, response) ==
    IF \E i \in 1..Len(calls) : FreshTokenFrom(i, refreshToken, now)
    THEN LET i == CHOOSE k \in 1..Len(calls) : FreshTokenFrom(k, refreshToken, now)
         IN Returned(<<>>, calls[i].value)
    ELSE FetchThenJson(TokenRequest("refresh_token", refreshToken), response)

\* variant: a failed refresh is tried a second time
refreshAccessTokenRetrying(refreshToken, response) ==
    LET request == TokenRequest("refresh_token", refreshToken)
        first == FetchThenJson(request, response)
    IN IF first.threw THEN Thrown(<<request, request>>) ELSE first

refreshAccessToken(refreshToken, response) ==
    FetchThenJson(TokenRequest("refresh_token", refreshToken), response)

exchangeCodeForTokens(authorizationCode, response) ==
    FetchThenJson(TokenRequest("authorization_code", authorizationCode), response)

\* a finished call, as the caller observes it
CallRecord(op, arg, response, done) ==
    [op |-> op, arg |-> arg, at |-> now, response |-> response,
     fetched |-> Len(done.requests), threw |-> done.threw, value |-> done.value]

RefreshAccessToken ==
    /\ Len(calls) < MaxCalls
    /\ \E refreshToken \in RefreshTokens, response \in Responses :
        LET done == refreshAccessToken(refreshToken, response)
        IN /\ fetches' = fetches \o done.requests
           /\ calls' = Append(calls, CallRecord("refresh", refreshToken, response, done))
    /\ UNCHANGED now
    /\ UNCHANGED runnerVars
    /\ UNCHANGED launcherVars

ExchangeCodeForTokens ==
    /\ Len(calls) < MaxCalls
    /\ \E code \in AuthorizationCodes, response \in Responses :
        LET done == exchangeCodeForTokens(code, response)
        IN /\ fetches' = fetches \o done.requests
           /\ calls' = Append(calls, CallRecord("exchange", code, response, done))
    /\ UNCHANGED now
    /\ UNCHANGED runnerVars
    /\ UNCHANGED launcherVars

\* time passes between calls
Tick ==
    /\ now < MaxTime
    /\ now' = now + 1
    /\ UNCHANGED <<fetches, calls>>
    /\ UNCHANGED runnerVars
    /\ UNCHANGED launcherVars

(***************************************************************************)
(* test_runner.sh: the launcher.  A command line is a sequence of words.   *)
(* Each launcher is a process of its own; all share the working directory. *)
(***************************************************************************)
\* how far the millisecond clock advances
MaxClock == 2

\* the launcher processes
Procs == {1, 2}

\* "${1:-smoke}": the default replaces a missing or empty argument
OrDefault(argv, i, d) == IF Len(argv) >= i /\ argv[i] # "" THEN argv[i] ELSE d

\* shift 2 2>/dev/null || shift $# 2>/dev/null
ShiftTwo(argv) == IF Len(argv) >= 2 THEN SubSeq(argv, 3, Len(argv)) ELSE <<>>

\* the while loop of main() over the remaining words.  "--iterations" as the
\* last word makes shift 2 fail, which ends the script under set -e.
RECURSIVE ParseOptions(_, _)
ParseOptions(rest, locals) ==
    IF rest = <<>> THEN locals
    ELSE IF rest[1] = "--iterations"
         THEN IF Len(rest) >= 2
              THEN ParseOptions(SubSeq(rest, 3, Len(rest)),
                                [locals EXCEPT !.iterations = rest[2]])
              ELSE [locals EXCEPT !.iterations = "", !.status = "shift failed"]
    ELSE IF rest[1] = "--clean"
         THEN ParseOptions(Tail(rest), [locals EXCEPT !.clean_before = TRUE])
    ELSE IF rest[1] = "--validate"
         THEN ParseOptions(Tail(rest), [locals EXCEPT !.validate_env = TRUE])
    ELSE IF rest[1] \in {"--help", "-h"}
         THEN [locals EXCEPT !.status = "help"]
    ELSE [locals EXCEPT !.status = "unknown option"]

\* the locals of main() when the option loop is left
MainLocals(argv) ==
    ParseOptions(ShiftTwo(argv),
                 [command |-> OrDefault(argv, 1, "smoke"),
                  environment |-> OrDefault(argv, 2, "Development"),
                  iterations |-> "5",
                  clean_before |-> FALSE,
                  validate_env |-> FALSE,
                  status |-> "parsed"])

\* the exit code main() ends with before any function runs, or -1 to go on
MainExit(locals) ==
    IF locals.status = "help" THEN 0
    ELSE IF locals.status \in {"unknown option", "shift failed"} THEN 1
    ELSE IF locals.command \in {"setup", "clean", "smoke", "full", "performance"} THEN -1
    ELSE IF locals.command \in {"help", "--help", "-h"} THEN 0
    ELSE 1

\* the state of "environments/Gmail_API_${environment}.postman_environment.json"
EnvStatus(environment) ==
    IF environment \in DOMAIN envFiles THEN envFiles[environment] ELSE "missing"

\* validate_environment: the exit code, or -1 when validation passed
validate_environment(status) ==
    IF status = "missing" THEN 1
    ELSE IF status = "malformed" THEN 1
    ELSE -1

\* clean_reports: rm -rf reports/* or mkdir -p reports
clean_reports(dir) ==
    IF dir.exists THEN [dir EXCEPT !.files = {}] ELSE [exists |-> TRUE, files |-> {}]

\* run_tests: the command it starts
run_tests(locals) ==
    IF locals.command \in {"smoke", "full"}
    THEN <<"node", "scripts/newman_runner.js", locals.command, locals.environment>>
    ELSE IF locals.command = "performance"
    THEN <<"node", "scripts/newman_runner.js", "performance", locals.environment,
           locals.iterations>>
    ELSE <<>>

\* a process that has not started main()
NotStarted(argv) ==
    [argv |-> argv, pc |-> "main",
     locals |-> [command |-> "", environment |-> "", iterations |-> "",
                 clean_before |-> FALSE, validate_env |-> FALSE, status |-> "unparsed"],
     exit |-> -1, launched |-> <<>>, node_status |-> -1, stamp |-> 0,
     shown |-> "nothing"]

Exited(l, code) == [l EXCEPT !.pc = "exited", !.exit = code]

\* main(): the locals, the option loop and the dispatch on the command
Main(p) ==
    /\ launchers[p].pc = "main"
    /\ LET locals == MainLocals(launchers[p].argv)
           code == MainExit(locals)
           parsed == [launchers[p] EXCEPT !.locals = locals]
       IN launchers' = [launchers EXCEPT ![p] =
            IF code # -1 THEN Exited(parsed, code)
            ELSE IF locals.command = "clean" THEN [parsed EXCEPT !.pc = "clean"]
            ELSE [parsed EXCEPT !.pc = "prerequisites"]]
    /\ UNCHANGED <<reports, envFiles, clock>>
    /\ UNCHANGED runnerVars
    /\ UNCHANGED oauthVars

\* check_prerequisites: node, npm and newman are there, or the script exits 1
CheckPrerequisites(p) ==
    /\ launchers[p].pc = "prerequisites"
    /\ \E installed \in BOOLEAN :
        launchers' = [launchers EXCEPT ![p] =
            IF ~installed THEN Exited(@, 1)
            ELSE IF @.locals.command = "setup" THEN Exited(@, 0)
            ELSE [@ EXCEPT !.pc = "validate"]]
    /\ UNCHANGED <<reports, envFiles, clock>>
    /\ UNCHANGED runnerVars
    /\ UNCHANGED oauthVars

\* if [ "$validate_env" = true ]; then validate_environment ...; fi
Validate(p) ==
    /\ launchers[p].pc = "validate"
    /\ LET l == launchers[p]
           code == IF l.locals.validate_env
                   THEN validate_environment(EnvStatus(l.locals.environment))
                   ELSE -1
       IN launchers' = [launchers EXCEPT ![p] =
            IF code # -1 THEN Exited(l, code) ELSE [l EXCEPT !.pc = "clean"]]
    /\ UNCHANGED <<reports, envFiles, clock>>
    /\ UNCHANGED runnerVars
    /\ UNCHANGED oauthVars

\* the "clean" command, and if [ "$clean_before" = true ]; then clean_reports; fi
Clean(p) ==
    /\ launchers[p].pc = "clean"
    /\ LET l == launchers[p]
       IN IF l.locals.command = "clean"
          THEN /\ reports' = clean_reports(reports)
               /\ launchers' = [launchers EXCEPT ![p] = Exited(l, 0)]
          ELSE /\ reports' = IF l.locals.clean_before THEN clean_reports(reports)
                             ELSE reports
               /\ launchers' = [launchers EXCEPT ![p] = [l EXCEPT !.pc = "run_tests"]]
    /\ UNCHANGED <<envFiles, clock>>
    /\ UNCHANGED runnerVars
    /\ UNCHANGED oauthVars

\* run_tests starts node scripts/newman_runner.js: the constructor creates
\* reports/ if it is missing, and runGmailTests names the report files after
\* the current millisecond
RunTests(p) ==
    /\ launchers[p].pc = "run_tests"
    /\ LET l == launchers[p]
           command == run_tests(l.locals)
       IN IF command = <<>>
          THEN /\ launchers' = [launchers EXCEPT ![p] = Exited(l, 1)]
               /\ UNCHANGED <<reports, clock>>
          ELSE \E t \in {clock, clock + 1} :
               /\ t <= MaxClock
               /\ clock' = t
               /\ reports' = [reports EXCEPT !.exists = TRUE]
               /\ launchers' = [launchers EXCEPT ![p] =
                    [l EXCEPT !.launched = command, !.stamp = t, !.pc = "node"]]
    /\ UNCHANGED envFiles
    /\ UNCHANGED runnerVars
    /\ UNCHANGED oauthVars

\* the report files of one run: named by its timestamp, written by one process
ReportFile(stamp, p) == [stamp |-> stamp, by |-> p]

\* writing a file replaces a file of the same name
WriteReport(files, file) == {f \in files : f.stamp # file.stamp} \cup {file}

\* variant: the script goes on after a failed node process (no set -e)
NodeExitStatusIgnored(p) ==
    /\ launchers[p].pc = "node"
    /\ LET l == launchers[p]
       IN \E settled \in {"resolved", "rejected"} :
           /\ EnvStatus(l.locals.environment) = "missing" => settled = "rejected"
           /\ launchers' = [launchers EXCEPT ![p] =
                [l EXCEPT !.pc = "results",
                          !.node_status = IF settled = "rejected" THEN 1 ELSE 0]]
           /\ IF settled = "rejected"
              THEN UNCHANGED reports
              ELSE reports' = [reports EXCEPT
                                 !.files = {f \in @ : f.stamp # l.stamp}
                                           \cup {[stamp |-> l.stamp, by |-> p]}]
    /\ UNCHANGED <<envFiles, clock>>
    /\ UNCHANGED runnerVars
    /\ UNCHANGED oauthVars

\* the node process ends; node_status is its exit status.  The promise is
\* rejected (always so when the environment file cannot be loaded) and the
\* process exits 1, which ends the script under set -e; or it is resolved, the reports of the run are in
\* reports/ and the process exits 0.
NodeExit(p) ==
    /\ launchers[p].pc = "node"
    /\ LET l == launchers[p]
       IN \E settled \in {"resolved", "rejected"} :
           /\ EnvStatus(l.locals.environment) = "missing" => settled = "rejected"
           /\ IF settled = "rejected"
              THEN /\ launchers' = [launchers EXCEPT ![p] =
                        Exited([l EXCEPT !.node_status = 1], 1)]
                   /\ UNCHANGED reports
              ELSE /\ launchers' = [launchers EXCEPT ![p] =
                        [l EXCEPT !.node_status = 0, !.pc = "results"]]
                   /\ reports' = [reports EXCEPT
                                    !.files = WriteReport(@, ReportFile(l.stamp, p))]
    /\ UNCHANGED <<envFiles, clock>>
    /\ UNCHANGED runnerVars
    /\ UNCHANGED oauthVars

\* show_results: lists reports/ or warns that it is empty
ShowResults(p) ==
    /\ launchers[p].pc = "results"
    /\ launchers' = [launchers EXCEPT ![p] =
            Exited([@ EXCEPT !.shown = IF reports.exists /\ reports.files # {}
                                       THEN "listed" ELSE "none"], 0)]
    /\ UNCHANGED <<reports, envFiles, clock>>
    /\ UNCHANGED runnerVars
    /\ UNCHANGED oauthVars

(***************************************************************************)
(* Command lines.                                                          *)
(***************************************************************************)
CommandArgs ==
    {Absent, SMOKE, <<"S", "m", "o", "k", "e">>, FULL, PERFORMANCE,
     <<"l", "o", "a", "d">>}

EnvironmentArgs == {Absent, <<"Production">>}

IterationArgs ==
    {Absent, <<"2">>, <<"3">>, <<"0">>, <<"-", "1">>, <<"a", "b", "c">>, <<"2", ".", "5">>}

OAuthIdle ==
    /\ now = 0
    /\ fetches = <<>>
    /\ calls = <<>>

\* no call of runGmailTests yet
NoCall == [environment |-> Absent, options |-> NoOptions]

RunnerIdle ==
    /\ pc = "start"
    /\ callArgs = NoCall
    /\ runOptions = NoOptions
    /\ printed = <<>>
    /\ resolved = 0
    /\ rejected = 0
    /\ completedMsg = 0
    /\ exits = <<>>
    /\ state = "Idle"
    /\ outcomes = <<>>
    /\ failedAssertions = 0
    /\ transportErrors = 0
    /\ engineErr = "none"
    /\ envVars = EnvironmentFile
    /\ collections = CollectionFiles

\* the CLI process of newman_runner.js, started with any command line
\* command lines of test_runner.sh
LauncherArgvs ==
    {<<>>,
     <<"smoke">>,
     <<"smoke", "--clean">>,
     <<"smoke", "--validate">>,
     <<"smoke", "Development", "--clean", "--validate">>,
     <<"full", "Production", "--validate">>,
     <<"performance", "Production", "--iterations", "2">>,
     <<"performance", "--iterations", "2">>,
     <<"performance", "Development", "--iterations">>,
     <<"smoke", "Development", "--bogus">>,
     <<"smoke", "Development", "--help">>,
     <<"clean">>,
     <<"setup">>,
     <<"help">>,
     <<"deploy">>}

\* what the environment files can be: complete, absent, or without the
\* "client_id" / "client_secret" entries
EnvFileStates ==
    {[e \in {"Development", "Production"} |-> IF e = "Development" THEN d ELSE "ok"] :
        d \in {"ok", "missing", "malformed"}}

\* a report of an earlier run
OldReport == ReportFile(0, 0)

\* no launcher process
LauncherIdle ==
    /\ launchers = <<>>
    /\ reports = [exists |-> FALSE, files |-> {}]
    /\ envFiles = [e \in {"Development", "Production"} |-> "ok"]
    /\ clock = 0

Init ==
    /\ args \in {<<c, e, n>> : c \in CommandArgs, e \in EnvironmentArgs, n \in IterationArgs}
    /\ RunnerIdle
    /\ OAuthIdle
    /\ LauncherIdle

Next ==
    \/ MainStart
    \/ EngineStart
    \/ EngineConfigError
    \/ EngineRequest
    \/ EngineAuthError
    \/ EngineFinish
    \/ Callback
    \/ MainSettle

Spec == Init /\ [][Next]_vars

\* a caller of runGmailTests; no command line
ApiInit ==
    /\ args = <<Absent, Absent, Absent>>
    /\ pc = "call"
    /\ callArgs \in [environment : EnvironmentArgs, options : ApiOptions]
    /\ runOptions = NoOptions
    /\ printed = <<>>
    /\ resolved = 0
    /\ rejected = 0
    /\ completedMsg = 0
    /\ exits = <<>>
    /\ state = "Idle"
    /\ outcomes = <<>>
    /\ failedAssertions = 0
    /\ transportErrors = 0
    /\ engineErr = "none"
    /\ envVars = EnvironmentFile
    /\ collections = CollectionFiles
    /\ OAuthIdle
    /\ LauncherIdle

ApiNext ==
    \/ ApiCall
    \/ EngineStart
    \/ EngineConfigError
    \/ EngineRequest
    \/ EngineAuthError
    \/ EngineFinish
    \/ Callback

ApiSpec == ApiInit /\ [][ApiNext]_vars

\* a GmailOAuthHelper instance used by a caller; no runner process
OAuthInit ==
    /\ args = <<Absent, Absent, Absent>>
    /\ RunnerIdle
    /\ OAuthIdle
    /\ LauncherIdle

OAuthNext ==
    \/ RefreshAccessToken
    \/ ExchangeCodeForTokens
    \/ Tick

OAuthSpec == OAuthInit /\ [][OAuthNext]_vars

\* two launchers started in one working directory, with any two command lines
LauncherInit ==
    /\ args = <<Absent, Absent, Absent>>
    /\ RunnerIdle
    /\ OAuthIdle
    /\ launchers \in [Procs -> {NotStarted(argv) : argv \in LauncherArgvs}]
    /\ reports \in {[exists |-> FALSE, files |-> {}],
                    [exists |-> TRUE, files |-> {OldReport}]}
    /\ envFiles \in EnvFileStates
    /\ clock = 1

LauncherNext ==
    \E p \in Procs :
        \/ Main(p)
        \/ CheckPrerequisites(p)
        \/ Validate(p)
        \/ Clean(p)
        \/ RunTests(p)
        \/ NodeExit(p)
        \/ ShowResults(p)

LauncherSpec == LauncherInit /\ [][LauncherNext]_vars

\* one word given as the first argument to both entry points: as
\* test_runner.sh sees it and as newman_runner.js inspects it
Selectors ==
    {[word |-> "deploy", chars |-> <<"d", "e", "p", "l", "o", "y">>],
     [word |-> "Smoke", chars |-> <<"S", "m", "o", "k", "e">>],
     [word |-> "clean", chars |-> <<"c", "l", "e", "a", "n">>],
     [word |-> "setup", chars |-> <<"s", "e", "t", "u", "p">>],
     [word |-> "help", chars |-> <<"h", "e", "l", "p">>],
     [word |-> "smoke", chars |-> SMOKE],
     [word |-> "full", chars |-> FULL]}

\* test_runner.sh <word> and test_runner.sh <word> Production, and
\* node scripts/newman_runner.js <word> [Production]
SelectorInit ==
    /\ \E sel \in Selectors :
        /\ args \in {<<sel.chars, e, Absent>> : e \in EnvironmentArgs}
        /\ launchers = [p \in Procs |->
                NotStarted(IF p = 1 THEN <<sel.word>> ELSE <<sel.word, "Production">>)]
    /\ RunnerIdle
    /\ OAuthIdle
    /\ reports = [exists |-> TRUE, files |-> {OldReport}]
    /\ envFiles = [e \in {"Development", "Production"} |-> "ok"]
    /\ clock = 1

LaunchersExited == \A p \in Procs : launchers[p].pc = "exited"

\* the launchers first, then the runner called directly
SelectorNext ==
    \/ LauncherNext
    \/ LaunchersExited /\ MainStart
    \/ LaunchersExited /\ EngineStart
    \/ LaunchersExited /\ EngineConfigError
    \/ LaunchersExited /\ EngineRequest
    \/ LaunchersExited /\ EngineAuthError
    \/ LaunchersExited /\ EngineFinish
    \/ LaunchersExited /\ Callback
    \/ LaunchersExited /\ MainSettle

SelectorSpec == SelectorInit /\ [][SelectorNext]_vars

(***************************************************************************)
(* Properties.                                                             *)
(***************************************************************************)
IsSmoke == ToLowerCase(Command(args)) = SMOKE
IsPerformance == ToLowerCase(Command(args)) = PERFORMANCE

Failures == failedAssertions + transportErrors

\* the iteration count the command line asks for
RequestedIterations ==
    IF IsPerformance THEN PerformanceIterations(args[3]) ELSE 1

\* the requests of the two smoke folders, in collection order
SmokeRequests ==
    SelectSeq(Collection,
              LAMBDA r : r.folder \in {"Authentication", "Profile & User Info"})

IsPrefix(s, t) == Len(s) <= Len(t) /\ \A k \in 1..Len(s) : s[k] = t[k]

\* C1: the process exits with code 0 if and only if the run ended Completed;
\* a run whose summary lists one or more failures never exits with code 0.
C1_ExitZeroIffCompleted ==
    pc = "exited" =>
        /\ (exits[Len(exits)] = 0) <=> (state = "Completed")
        /\ Failures > 0 => exits[Len(exits)] # 0

C3_OutcomeCount ==
    (pc # "start" /\ RequestedIterations >= 1) =>
        LET selected == Selected(runOptions)
            n == Len(selected)
        IN /\ Len(outcomes) <= RequestedIterations * n
           /\ \A k \in 1..Len(outcomes) : outcomes[k] = selected[((k - 1) % n) + 1]
           /\ state \in {"Completed", "Failed"} =>
                    Len(outcomes) = RequestedIterations * n

\* a performance run of 3 iterations over the 8 requests finished with failures
C3_Witness ==
    /\ IsPerformance /\ RequestedIterations = 3
    /\ state = "Failed" /\ pc = "exited"
    /\ Len(outcomes) = 3 * Len(Collection)

\* C4: a smoke run hands the engine exactly the folders "Authentication" and
\* "Profile & User Info" and executes only their requests, in collection
\* order; every other run has no folder filter and selects the whole collection.
C4_SmokeFolderFilter ==
    pc # "start" =>
        IF IsSmoke
        THEN /\ "folder" \in DOMAIN runOptions
             /\ Range(runOptions.folder) = {"Authentication", "Profile & User Info"}
             /\ IsPrefix(outcomes, SmokeRequests)
        ELSE /\ "folder" \notin DOMAIN runOptions
             /\ Selected(runOptions) = Collection

\* a smoke run executed all five requests of the two folders
C4_Witness ==
    /\ IsSmoke /\ pc = "exited"
    /\ outcomes = SmokeRequests /\ Len(outcomes) = 5
    /\ Len(Collection) > 5

\* the response carries a token: success status and a body with access_token
CarriesToken(response) ==
    /\ response.reached /\ response.ok
    /\ response.body.parses /\ "access_token" \in response.body.fields

\* C5: token acquisition (refresh or code exchange) fails with an error
\* whenever the endpoint answers with a non-success status or with a payload
\* without access_token, and returns a token only for a successful response
\* that contains access_token.
C5_TokenOrError ==
    \A i \in 1..Len(calls) :
        /\ ~CarriesToken(calls[i].response) => calls[i].threw
        /\ ~calls[i].threw => "access_token" \in calls[i].value.fields

\* calls i < j ask for the same refresh token, and the token call i returned is
\* still more than the safety margin from its expiry when call j is made
FreshPair(i, j) ==
    /\ i < j
    /\ calls[j].op = "refresh"
    /\ FreshTokenFrom(i, calls[j].arg, calls[j].at)

C7_RefreshNeverRetried ==
    /\ \A i \in 1..Len(calls) :
            calls[i].op = "refresh" =>
                /\ calls[i].fetched = 1
                /\ (~calls[i].response.reached \/ ~calls[i].response.ok) =>
                        /\ calls[i].threw
                        /\ "access_token" \notin calls[i].value.fields
    /\ Len(fetches) = Len(calls)

\* a refresh answered with a non-success status threw after one request
C7_Witness ==
    /\ Len(calls) = 1 /\ Len(fetches) = 1
    /\ calls[1].op = "refresh"
    /\ calls[1].response.reached /\ ~calls[1].response.ok
    /\ calls[1].threw

\* C8: the result of a run is delivered exactly once, as one summary or as one
\* error and never both; no summary is written and nothing is delivered while
\* the run is Idle or Running, and once the callback ran exactly one of
\* resolve/reject was called.
C8_SummaryOnce ==
    /\ resolved + rejected <= 1
    /\ Len(printed) <= 1
    /\ Len(printed) = resolved
    /\ rejected = 1 => printed = <<>>
    /\ (state \in {"Idle", "Running"} /\ engineErr = "none") =>
            printed = <<>> /\ resolved = 0 /\ rejected = 0
    /\ pc \in {"settled", "exited"} => resolved + rejected = 1
    /\ resolved = 1 => state \in Terminal

\* an aborted smoke run delivered its one summary
C8_Witness ==
    /\ pc = "exited" /\ state = "Aborted" /\ engineErr = "none"
    /\ Len(printed) = 1 /\ resolved = 1 /\ rejected = 0

\* C9: without bail, request failures never end the run and are all listed in
\* the summary; an error reported by the engine rejects the run, writes no
\* summary, and the process exits with a non-zero code.
C9_ErrorPropagation ==
    /\ (pc # "start" /\ ~runOptions.bail /\ engineErr = "none" /\ state \in Terminal) =>
            /\ Len(outcomes) = Total(runOptions)
            /\ state \in {"Completed", "Failed"}
    /\ (pc \in {"settled", "exited"} /\ engineErr = "none") =>
            /\ Len(printed) = 1
            /\ printed[1].failuresListed = failedAssertions + transportErrors
            /\ printed[1].failedRequests = transportErrors
            /\ printed[1].failedAssertions = failedAssertions
            /\ printed[1].allPassed <=> (Failures = 0)
    /\ (pc \in {"settled", "exited"} /\ engineErr # "none") =>
            /\ rejected = 1 /\ resolved = 0
            /\ printed = <<>>
            /\ completedMsg = 0
            /\ pc = "exited" => exits = <<1>>

\* an auth error in the middle of a run with recorded failures: exit code 1
C9_Witness ==
    /\ pc = "exited" /\ engineErr = "AuthError"
    /\ Len(outcomes) >= 2 /\ Failures >= 1
    /\ exits = <<1>> /\ printed = <<>>

\* C10: the run state only moves Idle -> Running -> {Completed, Aborted,
\* Failed} and never leaves a terminal state; Completed means every scheduled
\* request ran and no assertion failed, Failed means every scheduled request
\* ran and an assertion failed, and a run asked to bail (smoke) that recorded a
\* failure is Aborted, never Completed or Failed.
C10_RunStateMachine ==
    /\ [][state' # state =>
            \/ state = "Idle" /\ state' = "Running"
            \/ state = "Running" /\ state' \in Terminal]_vars
    /\ [](state = "Completed" =>
            Len(outcomes) = Total(runOptions) /\ failedAssertions = 0)
    /\ [](state = "Failed" =>
            Len(outcomes) = Total(runOptions) /\ failedAssertions > 0)
    /\ []((IsSmoke /\ Failures > 0) => state = "Aborted")
    /\ [](engineErr = "AuthError" => state = "Aborted")

\* a full run ended Failed after all its requests
C10_Witness ==
    /\ ~IsSmoke /\ ~IsPerformance
    /\ state = "Failed" /\ pc = "exited"
    /\ Len(outcomes) = Len(Collection)

\* the option keys the documentation names (README, "Newman Runner Options")
RecognizedKeys == {"iterations", "delay", "timeout", "bail", "folder"}

\* C11: a caller that supplies no options starts the engine with
\* iterations = 1, inter-request delay = 1000 ms, timeout = 30000 ms,
\* bail = false and no folder filter, so that every folder is selected.
C11_DefaultsWithoutOptions ==
    (pc # "call" /\ callArgs.options = NoOptions) =>
        /\ runOptions.iterationCount = 1
        /\ runOptions.delayRequest = 1000
        /\ runOptions.timeout = 30000
        /\ runOptions.bail = FALSE
        /\ "folder" \notin DOMAIN runOptions
        /\ Selected(runOptions) = Collection

\* a call without options ran the whole collection once
C11_Witness ==
    /\ callArgs.options = NoOptions /\ pc = "settled"
    /\ state = "Completed" /\ Len(outcomes) = Len(Collection)

\* C12: for a caller using the documented keys, every supplied delay >= 0,
\* 0 included, is the inter-request delay handed to the engine; 1000 is used
\* only when no delay was supplied.
C12_DelayHonoured ==
    (pc # "call" /\ DOMAIN callArgs.options \subseteq RecognizedKeys) =>
        IF "delay" \in DOMAIN callArgs.options
        THEN runOptions.delayRequest = callArgs.options.delay
        ELSE runOptions.delayRequest = 1000

\* C13: whatever the command line was, the iteration count handed to the
\* engine is a positive integer: never zero, never negative.
C13_IterationCountPositive ==
    pc # "start" => (runOptions.iterationCount \in Nat /\ runOptions.iterationCount >= 1)

\* C14: a key of the caller's options that is not a recognized option is
\* never merged into the options handed to the engine, so it cannot replace
\* the collection, the environment, the reporters or a computed setting.
C14_UnrecognizedKeysNotMerged ==
    pc # "call" =>
        LET base == BaseRunOptions(EnvironmentParam(callArgs.environment),
                                   CHOOSE t \in Timestamps : TRUE, callArgs.options)
        IN \A k \in DOMAIN callArgs.options \ RecognizedKeys :
            IF k \in DOMAIN base
            THEN runOptions[k] = base[k]
            ELSE k \notin DOMAIN runOptions

\* C14 as the code has it: every key of the caller's options, recognized or
\* not, is copied into the options handed to the engine and replaces the
\* value computed for that key; the collection, the reporters and the
\* iteration count keep their computed value only when the caller names no
\* such key.
C14_EveryCallerKeyMerged ==
    pc # "call" =>
        /\ \A k \in DOMAIN callArgs.options :
            k \in DOMAIN runOptions /\ runOptions[k] = callArgs.options[k]
        /\ "collection" \notin DOMAIN callArgs.options =>
            runOptions.collection = "collections/Gmail_API_E2E_Tests.postman_collection.json"
        /\ "reporters" \notin DOMAIN callArgs.options =>
            runOptions.reporters = <<"html", "json", "junit", "cli">>
        /\ ("iterationCount" \notin DOMAIN callArgs.options
                /\ "iterations" \notin DOMAIN callArgs.options) =>
            runOptions.iterationCount = 1

\* a caller's "collection" key replaced the collection and the engine ran it
C14_Witness ==
    /\ "collection" \in DOMAIN callArgs.options
    /\ pc = "settled"
    /\ runOptions.collection = "collections/Other.postman_collection.json"
    /\ outcomes = OtherCollection

\* the iteration argument as a number, for the arguments that are positive
\* integers in decimal
SuppliedCount == IF args[3] = <<"2">> THEN 2 ELSE IF args[3] = <<"3">> THEN 3 ELSE 0

\* C17: the command takes a mode, an environment (default Development) and
\* an optional iteration count.  In performance mode a supplied positive
\* integer N makes the run repeat the whole collection exactly N times and an
\* omitted count means 5; in smoke and full mode the argument has no effect
\* and the selected set runs once.
C17_ModeEnvironmentIterations ==
    pc # "start" =>
        /\ runOptions.environment =
               <<"environments/Gmail_API_",
                 IF args[2] = Absent THEN "Development" ELSE args[2][1],
                 ".postman_environment.json">>
        /\ args[1] = PERFORMANCE =>
            /\ SuppliedCount > 0 => runOptions.iterationCount = SuppliedCount
            /\ args[3] = Absent => runOptions.iterationCount = 5
            /\ (state \in {"Completed", "Failed"}
                    /\ (SuppliedCount > 0 \/ args[3] = Absent)) =>
                LET n == IF args[3] = Absent THEN 5 ELSE SuppliedCount
                IN /\ Len(outcomes) = n * Len(Collection)
                   /\ \A k \in 1..Len(outcomes) :
                        outcomes[k] = Collection[((k - 1) % Len(Collection)) + 1]
        /\ args[1] \in {SMOKE, FULL} =>
            /\ runOptions.iterationCount = 1
            /\ state \in {"Completed", "Failed"} =>
                outcomes = IF args[1] = SMOKE THEN SmokeRequests ELSE Collection

\* a performance run asked for 3 iterations in Production ran the collection
\* three times and exited
C17_Witness ==
    /\ args[1] = PERFORMANCE /\ args[2] = <<"Production">> /\ args[3] = <<"3">>
    /\ pc = "exited" /\ state = "Completed"
    /\ Len(outcomes) = 3 * Len(Collection)

\* C18: the run sequencer never mutates the environment or the collection.
\* No step changes a collection; the environment changes only in a step that
\* executes a request of a running run, and then only in its token fields.
\* Starting a run, finishing it and reporting it leave both unchanged.
C18_SequencerFrame ==
    [][/\ collections' = collections
       /\ envVars' # envVars =>
            /\ pc = "engine" /\ state = "Running"
            /\ Len(outcomes') = Len(outcomes) + 1
            /\ DOMAIN envVars' = DOMAIN envVars
            /\ \A k \in DOMAIN envVars \ TokenFields : envVars'[k] = envVars[k]]_vars

\* a run that wrote a token ended and was reported; the rest of the
\* environment and the collections are as loaded
C18_Witness ==
    /\ pc = "settled" /\ state = "Completed"
    /\ envVars.access_token = "issued"
    /\ envVars.client_id = EnvironmentFile.client_id
    /\ collections = CollectionFiles

\* C15: two runs started as separate processes do not interact.  A run whose
\* node process has written its reports still finds them, with its own
\* content, when its launcher goes on to show the results; and a launcher
\* that showed results after its run listed reports.
C15_RunsDoNotInteract ==
    (\A q \in Procs :
        OrDefault(launchers[q].argv, 1, "smoke") \in {"smoke", "full", "performance"}) =>
    \A p \in Procs :
        LET l == launchers[p]
        IN /\ l.pc = "results" => ReportFile(l.stamp, p) \in reports.files
           /\ (l.pc = "exited" /\ l.shown # "nothing") => l.shown = "listed"

\* C16: a missing or malformed environment file is fatal before any request
\* executes: the launcher starts no test command for it, the run does not
\* get as far as writing reports, and the launcher exits non-zero.
C16_BadEnvironmentFileIsFatal ==
    \A p \in Procs :
        LET l == launchers[p]
        IN (/\ l.locals.status = "parsed"
            /\ l.locals.command \in {"smoke", "full", "performance"}
            /\ l.locals.environment \in DOMAIN envFiles
            /\ envFiles[l.locals.environment] # "ok") =>
                /\ l.launched = <<>>
                /\ l.pc \notin {"node", "results"}
                /\ l.pc = "exited" => l.exit # 0

\* the option flags of test_runner.sh
OptionFlags == {"--clean", "--validate", "--iterations"}

\* the flag at position i of the command line took effect
FlagApplied(l, i) ==
    IF l.argv[i] = "--clean" THEN l.locals.clean_before
    ELSE IF l.argv[i] = "--validate" THEN l.locals.validate_env
    ELSE i < Len(l.argv) /\ l.locals.iterations = l.argv[i + 1]

\* C20: the environment is optional.  When an option flag directly follows
\* the command, the environment is Development and the flag takes effect;
\* every option flag on the command line is applied or rejected as unknown.
C20_EnvironmentOptional ==
    \A p \in Procs :
        LET l == launchers[p]
        IN l.pc # "main" =>
            /\ (Len(l.argv) >= 2 /\ l.argv[2] \in OptionFlags) =>
                /\ l.locals.environment = "Development"
                /\ FlagApplied(l, 2)
            /\ \A i \in 1..Len(l.argv) :
                l.argv[i] \in OptionFlags =>
                    FlagApplied(l, i) \/ l.locals.status \in {"unknown option", "help"}

\* the commands of test_runner.sh that run tests
TestCommands == {"smoke", "full", "performance"}

\* C21: for smoke, full and performance the launcher is a strictly ordered
\* fail-fast pipeline: prerequisites, validation (if --validate), cleaning
\* (if --clean), the test run, the result display.  Every step of a launcher
\* leads to the next step or ends the script non-zero; the reports are
\* cleaned only in the cleaning step and only with --clean, which comes
\* before the test command is started; a test run that exits non-zero ends
\* the script non-zero without a result display; exit 0 follows the display.
C21_FailFastPipeline ==
    [][\A p \in Procs :
        LET l == launchers[p]
            n == launchers'[p]
            failed == n.pc = "exited" /\ n.exit # 0 /\ n.shown = "nothing"
                      /\ n.launched = l.launched
        IN (l.locals.command \in TestCommands /\ l.pc # "main" /\ n # l) =>
            /\ l.pc = "prerequisites" => (n.pc = "validate" \/ failed)
            /\ l.pc = "validate" =>
                \/ n.pc = "clean"
                \/ failed /\ l.locals.validate_env
            /\ l.pc = "clean" =>
                /\ n.pc = "run_tests" /\ l.launched = <<>>
                /\ l.locals.clean_before => reports'.files = {}
                /\ ~l.locals.clean_before => reports' = reports
            /\ l.pc # "clean" => reports'.files # {} \/ reports.files = {}
            /\ l.pc = "run_tests" => (n.pc = "node" /\ n.launched # <<>>)
            /\ l.pc = "node" =>
                \/ n.node_status = 0 /\ n.pc = "results"
                \/ n.node_status # 0 /\ failed /\ n.exit = n.node_status
            /\ l.pc = "results" =>
                (n.pc = "exited" /\ n.exit = 0 /\ n.shown # "nothing")
            /\ l.pc # "results" => n.shown = "nothing"
            /\ l.pc # "exited"]_vars

\* a smoke run with --clean and --validate went through every step and
\* exited 0, and another launcher's test run failed and ended its script
C21_Witness ==
    \E p, q \in Procs :
        /\ launchers[p].locals.clean_before /\ launchers[p].locals.validate_env
        /\ launchers[p].pc = "exited" /\ launchers[p].exit = 0
        /\ launchers[p].shown = "listed"
        /\ launchers[q].locals.command \in TestCommands
        /\ launchers[q].launched # <<>>
        /\ launchers[q].pc = "exited" /\ launchers[q].exit = 1

\* the runner called with a selector other than smoke and performance in
\* any case: one unfiltered pass over the collection with bail off
RunsAsFull ==
    pc # "start" =>
        /\ runOptions.iterationCount = 1
        /\ runOptions.bail = FALSE
        /\ "folder" \notin DOMAIN runOptions
        /\ state \in {"Completed", "Failed"} => outcomes = Collection

====
